---- MODULE Spec2Model ----
(***************************************************************************)
(* epub-tools: epub_merge (src/src/merge.py), its helpers                  *)
(* (src/src/utils/epub_utils.py) and set_cover (src/src/set_cover.py).     *)
(*                                                                         *)
(* Representation.                                                         *)
(*   string  a sequence of atoms; an atom is a decimal digit, "_" or an    *)
(*           opaque word of letters, so "0_x" is <<"0","_","x">> and       *)
(*           Python's + on strings is \o.                                  *)
(*   path    a sequence of segments (strings); pathlib's / is \o, .parent  *)
(*           drops the last segment and .name is the last segment.  Only   *)
(*           normalised relative paths are enumerated.                     *)
(*   Optional values: None is <<>> and a present value v is <<v>>.         *)
(*   A missing XML attribute is the empty string <<>> (Python's            *)
(*   `not value` is true of None and of "" alike).                         *)
(***************************************************************************)
EXTENDS Integers, Sequences, FiniteSets, TLC

\* ------------------------------------------------------------------ bounds
MaxFiles == 2
MaxPlayOrder == 3
MaxCoverRuns == 2

\* ------------------------------------------------------- program constants
None == <<>>
Some(v) == <<v>>

MIMETYPE_PATH == <<<<"mimetype">>>>
MIMETYPE_DATA == [kind |-> "bytes", bytes |-> <<"application/epub+zip">>]
CONTAINER_XML_PATH == <<<<"META-INF">>, <<"container.xml">>>>
COVER_NAME == <<<<"cover.jpg">>>>

NCX == "application/x-dtbncx+xml"
XHTML == "application/xhtml+xml"
CSS == "text/css"
JPEG == "image/jpeg"

\* -------------------------------------------------------- strings and paths
Digit == <<"0", "1", "2", "3", "4", "5", "6", "7", "8", "9">>

\* str(input_file_index) + '_'   (indices below 10)
file_prefix_of(input_file_index) == <<Digit[input_file_index + 1], "_">>

parent(p) == SubSeq(p, 1, Len(p) - 1)
name(p) == p[Len(p)]

\* str(Path(file_path).parent / (prefix + Path(file_path).name))
add_prefix_to_file_path_first(prefix, file_path) ==
    <<prefix \o file_path[1]>> \o SubSeq(file_path, 2, Len(file_path))

add_prefix_to_file_path(prefix, file_path) ==
    parent(file_path) \o <<prefix \o name(file_path)>>

\* ------------------------------------------------------------ dictionaries
\* A Python dict as a sequence of [key, value] in insertion order.
RECURSIVE Keys(_)
Keys(d) == IF d = <<>> THEN {} ELSE {d[1].key} \cup Keys(Tail(d))

Lookup(d, k) == (CHOOSE j \in 1..Len(d) : d[j].key = k)

DictGet(d, k) == d[Lookup(d, k)].value

DictSet(d, k, v) ==
    IF k \in Keys(d)
    THEN [d EXCEPT ![Lookup(d, k)] = [key |-> k, value |-> v]]
    ELSE Append(d, [key |-> k, value |-> v])

\* ----------------------------------------------------- reference rewriting
\* An XHTML body is the sequence of its elements' [href, src] attributes.
replace_all_hrefs_none(file_contents, updated_hrefs) == file_contents

replace_all_hrefs(file_contents, updated_hrefs) ==
    [file_contents EXCEPT !.elems =
        [k \in 1..Len(file_contents.elems) |->
            IF file_contents.elems[k].href # <<>>
               /\ file_contents.elems[k].href \in Keys(updated_hrefs)
            THEN [file_contents.elems[k] EXCEPT
                    !.href = DictGet(updated_hrefs, file_contents.elems[k].href)]
            ELSE file_contents.elems[k]]]

replace_all_src(file_contents, updated_src) ==
    [file_contents EXCEPT !.elems =
        [k \in 1..Len(file_contents.elems) |->
            IF file_contents.elems[k].src # <<>>
               /\ file_contents.elems[k].src \in Keys(updated_src)
            THEN [file_contents.elems[k] EXCEPT
                    !.src = DictGet(updated_src, file_contents.elems[k].src)]
            ELSE file_contents.elems[k]]]

\* A toc.ncx root is [navMap: sequence of navPoint], a navPoint being its
\* playOrder attribute and the src attribute of its content child.
replace_all_src_element(root, updated_src) ==
    [root EXCEPT !.navMap =
        [k \in 1..Len(root.navMap) |->
            IF root.navMap[k].src \in Keys(updated_src)
            THEN [root.navMap[k] EXCEPT
                    !.src = DictGet(updated_src, root.navMap[k].src)]
            ELSE root.navMap[k]]]

\* ------------------------------------------------------------------ inputs
\* An input archive: the path its container.xml names, whether its package
\* document has a <manifest> and a <spine>, their children in document order
\* (an item is its id, href and media-type attributes; an itemref its idref)
\* and the archive's entries, path |-> contents.
Bytes(s) == [kind |-> "bytes", bytes |-> s]

Epub(dir, manifest, spine, toc, body) ==
    [content_opf_path |-> dir \o <<<<"content.opf">>>>,
     has_manifest |-> TRUE,
     has_spine |-> TRUE,
     manifest |-> manifest,
     spine |-> spine,
     files |->
        [p \in {dir \o manifest[k].href : k \in 1..Len(manifest)} |->
            LET e == manifest[CHOOSE k \in 1..Len(manifest) :
                                 dir \o manifest[k].href = p]
            IN  IF e.media_type = NCX THEN toc
                ELSE IF e.media_type = XHTML THEN body
                ELSE Bytes(name(p))]]

Item(id, href, media_type) ==
    [id |-> id, href |-> href, media_type |-> media_type]

Root == <<>>
OEBPS == <<<<"OEBPS">>>>

Id_x == <<"x">>
Id_0_x == <<"0", "_", "x">>
Id_ncx == <<"ncx">>
Id_c == <<"c">>
Id_s == <<"s">>

Ch1 == <<<<"ch1.html">>>>
Ch1_0 == <<<<"0", "_", "ch1.html">>>>
StyleCss == <<<<"style.css">>>>
ImgJpg == <<<<"img">>, <<"img.jpg">>>>
TocNcx == <<<<"toc.ncx">>>>

Nav(id) == Item(id, TocNcx, NCX)

\* navMaps whose playOrder values are strictly increasing, every point
\* targeting ch1.html
RECURSIVE Increasing(_)
Increasing(s) ==
    Len(s) <= 1 \/ (s[1] < s[2] /\ Increasing(Tail(s)))

PlayOrders ==
    {s \in UNION {[1..n -> 1..MaxPlayOrder] : n \in 1..MaxPlayOrder} : Increasing(s)}

Toc(orders) ==
    [kind |-> "ncx",
     navMap |-> [k \in 1..Len(orders) |-> [playOrder |-> orders[k], src |-> Ch1]]]

Elem(href, src) == [href |-> href, src |-> src]

Bodies ==
    {[kind |-> "xhtml", elems |-> <<Elem(StyleCss, <<>>)>>],
     [kind |-> "xhtml",
      elems |-> <<Elem(StyleCss, ImgJpg), Elem(Ch1_0, StyleCss), Elem(<<>>, Ch1)>>]}

\* archives that differ in their ids, in where the navigation entry stands
\* and in what the spine refers to
IdManifests ==
    {<<Item(Id_x, ImgJpg, JPEG)>>}
    \cup {<<Nav(a), Item(Id_x, ImgJpg, JPEG)>> : a \in {Id_ncx, Id_0_x}}
    \cup {<<Item(Id_x, ImgJpg, JPEG), Nav(a)>> : a \in {Id_ncx, Id_0_x}}

IdArchives ==
    UNION {{Epub(OEBPS, m, s, Toc(<<1>>), CHOOSE b \in Bodies : TRUE) :
                s \in {<<>>} \cup {<<m[k].id>> : k \in 1..Len(m)}} :
           m \in IdManifests}

\* archives with one chapter that refers to a stylesheet listed after it
RefManifests ==
    {<<Nav(Id_ncx), Item(Id_c, Ch1, XHTML), Item(Id_s, StyleCss, CSS),
       Item(Id_x, ImgJpg, JPEG)>>,
     <<Item(Id_c, Ch1, XHTML), Item(Id_s, StyleCss, CSS)>>}

RefArchives ==
    {Epub(d, m, <<Id_c>>, Toc(<<1>>), b) :
        d \in {Root, OEBPS}, m \in RefManifests, b \in Bodies}

\* archives that differ in their navigation points
NavArchives ==
    {Epub(OEBPS, <<Nav(Id_ncx), Item(Id_c, Ch1, XHTML)>>, <<Id_c>>, Toc(o),
          [kind |-> "xhtml", elems |-> <<>>]) : o \in PlayOrders}
    \cup {Epub(OEBPS, <<Nav(Id_ncx), Item(Id_c, Ch1_0, XHTML)>>, <<Id_c>>,
               Toc(<<1>>), [kind |-> "xhtml", elems |-> <<>>])}

\* archives with one fatal defect each
SoundArchive ==
    Epub(OEBPS, <<Nav(Id_ncx), Item(Id_x, ImgJpg, JPEG)>>, <<Id_x>>, Toc(<<1>>),
         CHOOSE b \in Bodies : TRUE)

DefectArchives ==
    {[SoundArchive EXCEPT !.has_manifest = FALSE],
     [SoundArchive EXCEPT !.has_spine = FALSE],
     [SoundArchive EXCEPT !.manifest[2].id = <<>>],
     [SoundArchive EXCEPT !.spine[1] = <<>>]}

Archives == IdArchives \cup RefArchives \cup NavArchives \cup DefectArchives

\* ------------------------------------------------------------------- state
VARIABLES
    files_to_merge,              \* epub_merge's argument
    pc,                          \* position in epub_merge
    result,                      \* how epub_merge ended, what it printed
    zip_out,                     \* the entries written to dst_file, in order
    input_file_index,
    output_content_opf_location,
    output_content_opf_tree,     \* None or [manifest, spine] of the output
    output_toc_path,
    output_toc_root,
    path_and_contents_dict,
    updated_files,
    manifest_i,                  \* next child of <manifest> to visit
    spine_i,                     \* next child of <spine> to visit
    cover_src,                   \* set_cover: the archive given as src_file
    cover_dst,                   \* set_cover: None or the archive written
    cover_result,
    cover_runs,
    cover_args                   \* set_cover: None or the last call's arguments

merge_vars ==
    <<files_to_merge, pc, result, zip_out, input_file_index,
      output_content_opf_location, output_content_opf_tree, output_toc_path,
      output_toc_root, path_and_contents_dict, updated_files, manifest_i,
      spine_i>>

cover_vars == <<cover_src, cover_dst, cover_result, cover_runs, cover_args>>

vars == <<merge_vars, cover_vars>>

zip_file == files_to_merge[input_file_index + 1]
file_prefix == file_prefix_of(input_file_index)
content_opf_parent == parent(zip_file.content_opf_path)

\* ZipFile.writestr: entries are appended in the order written
writestr(zip, path, data) == Append(zip, [path |-> path, data |-> data])

\* zip_file.read(path): every path a manifest names is an entry of the archive
read(zip, path) == zip.files[path]

Running == [returned |-> "", printed |-> ""]
Returned(value, printed) == [returned |-> value, printed |-> printed]

NoCover == [content_opf_path |-> <<>>, has_manifest |-> FALSE,
            has_metadata |-> FALSE, manifest |-> <<>>, metadata |-> <<>>,
            filenames |-> <<>>]

CoverIdle ==
    /\ cover_src = NoCover
    /\ cover_dst = None
    /\ cover_result = Running
    /\ cover_runs = 0
    /\ cover_args = None

\* State at the call epub_merge(files_to_merge, dst_file)
Init ==
    /\ files_to_merge \in UNION {[1..n -> Archives] : n \in 1..MaxFiles}
    /\ pc = "start"
    /\ result = Running
    /\ zip_out = <<>>
    /\ input_file_index = 0
    /\ output_content_opf_location = None
    /\ output_content_opf_tree = None
    /\ output_toc_path = None
    /\ output_toc_root = None
    /\ path_and_contents_dict = <<>>
    /\ updated_files = <<>>
    /\ manifest_i = 1
    /\ spine_i = 1
    /\ CoverIdle

\* merge.py 22-38: the output is opened and its first entry written
InitialEntries_none == <<>>

InitialEntries == writestr(<<>>, MIMETYPE_PATH, MIMETYPE_DATA)

OpenOutput ==
    /\ pc = "start"
    /\ zip_out' = InitialEntries
    /\ output_content_opf_location' = None
    /\ output_content_opf_tree' = None
    /\ output_toc_path' = None
    /\ output_toc_root' = None
    /\ pc' = "archive"
    /\ UNCHANGED <<files_to_merge, result, input_file_index,
                   path_and_contents_dict, updated_files, manifest_i, spine_i,
                   cover_vars>>

\* merge.py 40-84: the next archive is opened; the first one gives the output
\* its package-document path, its container.xml and its package document,
\* whose <manifest> and <spine> are looked up and cleared
OpenArchive ==
    /\ pc = "archive"
    /\ input_file_index < Len(files_to_merge)
    /\ output_content_opf_location' =
          IF output_content_opf_location = None
          THEN Some(zip_file.content_opf_path)
          ELSE output_content_opf_location
    /\ LET written == IF output_content_opf_location = None
                      THEN writestr(zip_out, CONTAINER_XML_PATH,
                                    [kind |-> "container",
                                     full_path |-> zip_file.content_opf_path])
                      ELSE zip_out
       IN  zip_out' = written
    /\ IF output_content_opf_tree = None /\ ~zip_file.has_manifest
       THEN /\ result' = Returned("False", "No manifest tag found in content.opf")
            /\ pc' = "done"
            /\ UNCHANGED output_content_opf_tree
       ELSE IF output_content_opf_tree = None /\ ~zip_file.has_spine
       THEN /\ result' = Returned("False", "No spine tag found in content.opf")
            /\ pc' = "done"
            /\ UNCHANGED output_content_opf_tree
       ELSE /\ output_content_opf_tree' =
                  IF output_content_opf_tree = None
                  THEN Some([manifest |-> <<>>, spine |-> <<>>])
                  ELSE output_content_opf_tree
            /\ pc' = "manifest"
            /\ UNCHANGED result
    /\ path_and_contents_dict' = <<>>
    /\ updated_files' = <<>>
    /\ manifest_i' = 1
    /\ spine_i' = 1
    /\ UNCHANGED <<files_to_merge, input_file_index, output_toc_path,
                   output_toc_root, cover_vars>>

\* merge.py 107-115: the points of a later toc.ncx are appended to the output
\* navMap, playOrder raised by the number of children the navMap has
merge_navmap(output_root, toc_navmap) ==
    LET offset == Len(output_root.navMap)
    IN  [output_root EXCEPT !.navMap =
            @ \o [k \in 1..Len(toc_navmap.navMap) |->
                    [toc_navmap.navMap[k] EXCEPT !.playOrder = @ + offset]]]

\* merge.py 117-118, 122, 133: the item with its id and href prefixed
updated_item_bare_id(i, prefix) ==
    [i EXCEPT !.href = add_prefix_to_file_path(prefix, i.href)]

updated_item(i, prefix) ==
    [i EXCEPT !.id = prefix \o i.id,
              !.href = add_prefix_to_file_path(prefix, i.href)]

\* merge.py 96-134: what one <manifest> child adds to the output manifest
output_manifest_keep_all(output_manifest, i, toc_root, prefix) ==
    IF i.media_type = NCX
    THEN Append(output_manifest, i)
    ELSE Append(output_manifest, updated_item(i, prefix))

output_manifest_after(output_manifest, i, toc_root, prefix) ==
    IF i.media_type = NCX
    THEN IF toc_root = None
         THEN Append(output_manifest, i)
         ELSE output_manifest
    ELSE Append(output_manifest, updated_item(i, prefix))

\* merge.py 85: iterating over a <manifest> that find() did not find
ManifestMissing ==
    /\ pc = "manifest"
    /\ ~zip_file.has_manifest
    /\ result' = Returned("TypeError", "")
    /\ pc' = "done"
    /\ UNCHANGED <<files_to_merge, zip_out, input_file_index,
                   output_content_opf_location, output_content_opf_tree,
                   output_toc_path, output_toc_root, path_and_contents_dict,
                   updated_files, manifest_i, spine_i, cover_vars>>

\* merge.py 126: the media type whose contents are kept until the manifest
\* loop is over; every other non-navigation item is written at once
is_buffered_never(media_type) == FALSE

is_buffered(media_type) == media_type = XHTML

\* merge.py 85-134: one iteration of the loop over the <manifest> children
ManifestEntry ==
    /\ pc = "manifest"
    /\ zip_file.has_manifest
    /\ manifest_i <= Len(zip_file.manifest)
    /\ LET i == zip_file.manifest[manifest_i]
           current_id == i.id
           href_value == i.href
           path_i == content_opf_parent \o href_value
           updated_href == add_prefix_to_file_path(file_prefix, href_value)
           updated_path == content_opf_parent \o updated_href
       IN  IF current_id = <<>>
           THEN /\ result' = Returned("False", "ERROR - expected id tag in manifest")
                /\ pc' = "done"
                /\ UNCHANGED <<zip_out, output_content_opf_tree, output_toc_path,
                               output_toc_root, path_and_contents_dict,
                               updated_files, manifest_i>>
           ELSE /\ output_content_opf_tree' =
                      Some([output_content_opf_tree[1] EXCEPT !.manifest =
                              output_manifest_after(@, i, output_toc_root,
                                                    file_prefix)])
                /\ manifest_i' = manifest_i + 1
                /\ UNCHANGED <<result, pc>>
                /\ IF i.media_type = NCX
                   THEN /\ IF output_toc_root = None
                           THEN /\ output_toc_path' = Some(path_i)
                                /\ output_toc_root' = Some(read(zip_file, path_i))
                           ELSE /\ output_toc_root' =
                                      Some(merge_navmap(output_toc_root[1],
                                                        read(zip_file, path_i)))
                                /\ UNCHANGED output_toc_path
                        /\ UNCHANGED <<zip_out, path_and_contents_dict,
                                       updated_files>>
                   ELSE /\ updated_files' =
                              DictSet(updated_files, href_value, updated_href)
                        /\ IF is_buffered(i.media_type)
                           THEN /\ path_and_contents_dict' =
                                      DictSet(path_and_contents_dict, updated_path,
                                              read(zip_file, path_i))
                                /\ UNCHANGED zip_out
                           ELSE /\ zip_out' = writestr(zip_out, updated_path,
                                                       read(zip_file, path_i))
                                /\ UNCHANGED path_and_contents_dict
                        /\ UNCHANGED <<output_toc_path, output_toc_root>>
    /\ UNCHANGED <<files_to_merge, input_file_index,
                   output_content_opf_location, spine_i, cover_vars>>

\* merge.py 138-139: a buffered body with its href and src values replaced
updated_content_href_only(file_contents, updated) ==
    replace_all_hrefs(file_contents, updated)

updated_content(file_contents, updated) ==
    replace_all_src(replace_all_hrefs(file_contents, updated), updated)

\* merge.py 136-142: the buffered bodies are rewritten and written, then the
\* src values of the whole output toc.ncx are replaced; with no toc.ncx
\* adopted, replace_all_src_element(None, ...) raises AttributeError
AfterManifest ==
    /\ pc = "manifest"
    /\ zip_file.has_manifest
    /\ manifest_i > Len(zip_file.manifest)
    /\ zip_out' = zip_out \o
          [k \in 1..Len(path_and_contents_dict) |->
              [path |-> path_and_contents_dict[k].key,
               data |-> updated_content(path_and_contents_dict[k].value,
                                        updated_files)]]
    /\ IF output_toc_root = None
       THEN /\ result' = Returned("AttributeError", "")
            /\ pc' = "done"
            /\ UNCHANGED output_toc_root
       ELSE /\ output_toc_root' =
                  Some(replace_all_src_element(output_toc_root[1], updated_files))
            /\ pc' = "spine"
            /\ UNCHANGED result
    /\ UNCHANGED <<files_to_merge, input_file_index,
                   output_content_opf_location, output_content_opf_tree,
                   output_toc_path, path_and_contents_dict, updated_files,
                   manifest_i, spine_i, cover_vars>>

\* merge.py 146: iterating over a <spine> that find() did not find
SpineMissing ==
    /\ pc = "spine"
    /\ ~zip_file.has_spine
    /\ result' = Returned("TypeError", "")
    /\ pc' = "done"
    /\ UNCHANGED <<files_to_merge, zip_out, input_file_index,
                   output_content_opf_location, output_content_opf_tree,
                   output_toc_path, output_toc_root, path_and_contents_dict,
                   updated_files, manifest_i, spine_i, cover_vars>>

\* merge.py 152-154: the idref an itemref gets
updated_idref_bare(prefix, current_id) == current_id

updated_idref(prefix, current_id) == prefix \o current_id

\* merge.py 146-155: one iteration of the loop over the <spine> children
SpineEntry ==
    /\ pc = "spine"
    /\ zip_file.has_spine
    /\ spine_i <= Len(zip_file.spine)
    /\ LET current_id == zip_file.spine[spine_i]
       IN  IF current_id = <<>>
           THEN /\ result' = Returned("False", "ERROR - expected id tag in manifest")
                /\ pc' = "done"
                /\ UNCHANGED <<output_content_opf_tree, spine_i>>
           ELSE /\ output_content_opf_tree' =
                      Some([output_content_opf_tree[1] EXCEPT !.spine =
                              Append(@, updated_idref(file_prefix, current_id))])
                /\ spine_i' = spine_i + 1
                /\ UNCHANGED <<result, pc>>
    /\ UNCHANGED <<files_to_merge, zip_out, input_file_index,
                   output_content_opf_location, output_toc_path,
                   output_toc_root, path_and_contents_dict, updated_files,
                   manifest_i, cover_vars>>

\* merge.py 40-41: the archive is closed and the loop moves to the next one
NextArchive ==
    /\ pc = "spine"
    /\ zip_file.has_spine
    /\ spine_i > Len(zip_file.spine)
    /\ input_file_index' = input_file_index + 1
    /\ pc' = "archive"
    /\ UNCHANGED <<files_to_merge, result, zip_out,
                   output_content_opf_location, output_content_opf_tree,
                   output_toc_path, output_toc_root, path_and_contents_dict,
                   updated_files, manifest_i, spine_i, cover_vars>>

\* merge.py 157-164: the package document and, if one was adopted, the
\* toc.ncx are written and epub_merge returns True
WriteOutput ==
    /\ pc = "archive"
    /\ input_file_index = Len(files_to_merge)
    /\ LET with_opf == writestr(zip_out, output_content_opf_location[1],
                                [kind |-> "opf",
                                 manifest |-> output_content_opf_tree[1].manifest,
                                 spine |-> output_content_opf_tree[1].spine])
       IN  zip_out' = IF output_toc_root # None
                      THEN writestr(with_opf, output_toc_path[1], output_toc_root[1])
                      ELSE with_opf
    /\ result' = Returned("True", "")
    /\ pc' = "done"
    /\ UNCHANGED <<files_to_merge, input_file_index,
                   output_content_opf_location, output_content_opf_tree,
                   output_toc_path, output_toc_root, path_and_contents_dict,
                   updated_files, manifest_i, spine_i, cover_vars>>

Next ==
    \/ OpenOutput
    \/ OpenArchive
    \/ ManifestMissing
    \/ ManifestEntry
    \/ AfterManifest
    \/ SpineMissing
    \/ SpineEntry
    \/ NextArchive
    \/ WriteOutput

Spec == Init /\ [][Next]_vars

\* ---------------------------------------------------------------- set_cover
\* An archive as set_cover sees it: its mimetype entry ("ok", "missing" or
\* "wrong"), the package document's path, whether the document has a
\* <manifest> and a <metadata>, their item and meta children, and the
\* archive's other entry names in infolist() order.
ContentOpf(dir) == dir \o <<<<"content.opf">>>>

CoverItemAt(href) == [href |-> href, id |-> <<"cover">>, media_type |-> JPEG]
CoverMeta == [name |-> <<"cover">>, content |-> <<"cover">>]

CoverSources ==
    {[mimetype |-> mt,
      content_opf_path |-> ContentOpf(d),
      has_manifest |-> hm,
      has_metadata |-> hd,
      manifest |-> m,
      metadata |-> md,
      filenames |-> <<ContentOpf(d), d \o Ch1>>] :
        mt \in {"ok", "missing", "wrong"},
        d \in {Root, OEBPS},
        hm \in BOOLEAN,
        hd \in BOOLEAN,
        m \in {<<>>,
               <<[href |-> Ch1, id |-> Id_c, media_type |-> XHTML]>>,
               <<CoverItemAt(COVER_NAME)>>,
               <<[href |-> COVER_NAME, id |-> <<"cover">>, media_type |-> "image/png"]>>},
        md \in {<<>>, <<CoverMeta>>,
                <<[name |-> <<"cover">>, content |-> <<"other">>]>>}}

InitCover ==
    /\ files_to_merge = <<>>
    /\ pc = "idle"
    /\ result = Running
    /\ zip_out = <<>>
    /\ input_file_index = 0
    /\ output_content_opf_location = None
    /\ output_content_opf_tree = None
    /\ output_toc_path = None
    /\ output_toc_root = None
    /\ path_and_contents_dict = <<>>
    /\ updated_files = <<>>
    /\ manifest_i = 1
    /\ spine_i = 1
    /\ cover_src \in CoverSources
    /\ cover_dst = None
    /\ cover_result = Running
    /\ cover_runs = 0
    /\ cover_args = None

\* set_cover.py 78-88: Path(file_path).exists(), true of a directory too
validate_file_exists(kind) == kind # "missing"

\* set_cover.py 147-165
check_item_exact(manifest, path_to_cover) ==
    \E k \in 1..Len(manifest) :
        /\ manifest[k].href = path_to_cover
        /\ manifest[k].id = <<"cover">>
        /\ manifest[k].media_type = JPEG

check_item_tag_present_in_manifest(manifest, path_to_cover) ==
    \E k \in 1..Len(manifest) :
        /\ manifest[k].href = COVER_NAME
        /\ manifest[k].id = <<"cover">>
        /\ manifest[k].media_type = JPEG

\* set_cover.py 168-182
check_meta_tag_present_in_metadata(metadata) ==
    \E k \in 1..Len(metadata) :
        /\ metadata[k].name = <<"cover">>
        /\ metadata[k].content = <<"cover">>

\* set_cover.py 116-138: the entry names of the copy; an entry that stands at
\* the cover's path is skipped and the image is added last
RECURSIVE Without(_, _)
Without(names, p) ==
    IF names = <<>> THEN <<>>
    ELSE IF names[1] = p THEN Without(Tail(names), p)
    ELSE <<names[1]>> \o Without(Tail(names), p)

copy_zip_with_replacements(filenames, path_to_cover) ==
    Append(Without(filenames, path_to_cover), path_to_cover)

\* set_cover.py 213-275: the package document patched and the copy written
with_cover(src) ==
    LET path_to_cover_in_zipfile == parent(src.content_opf_path) \o COVER_NAME
    IN  [src EXCEPT
            !.manifest =
                IF src.has_manifest
                   /\ ~check_item_tag_present_in_manifest(@, path_to_cover_in_zipfile)
                THEN Append(@, CoverItemAt(path_to_cover_in_zipfile))
                ELSE @,
            !.metadata =
                IF src.has_metadata /\ ~check_meta_tag_present_in_metadata(@)
                THEN Append(@, CoverMeta)
                ELSE @,
            !.filenames =
                copy_zip_with_replacements(@, path_to_cover_in_zipfile)]

\* The archive the next call is given as src_file: the original one, or the
\* dst_file of the call before
cover_input == IF cover_dst = None THEN cover_src ELSE cover_dst[1]

\* set_cover.py 185-275, one call. src_file and img_to_add are each a missing
\* path, a regular file or a directory: a directory passes the validation;
\* as src_file it makes ZipFile(src_file) raise (set_cover.py 213), as
\* img_to_add it is written as the entry at the cover's path.
set_cover(src_kind, img_kind, dst_exists, continue_str) ==
    /\ pc = "idle"
    /\ cover_runs < MaxCoverRuns
    /\ cover_args' = Some([src_kind |-> src_kind, img_kind |-> img_kind,
                           dst_exists |-> dst_exists,
                           continue_str |-> continue_str])
    /\ IF ~validate_file_exists(src_kind) \/ ~validate_file_exists(img_kind)
       THEN /\ cover_result' = Returned("RuntimeError", "No such file")
            /\ UNCHANGED <<cover_dst, cover_runs>>
       ELSE IF dst_exists /\ continue_str \notin {"Y", "YES"}
       THEN /\ cover_result' = Returned("False", "")
            /\ UNCHANGED <<cover_dst, cover_runs>>
       ELSE IF src_kind = "directory"
       THEN /\ cover_result' = Returned("IsADirectoryError", "")
            /\ UNCHANGED <<cover_dst, cover_runs>>
       ELSE IF cover_input.mimetype = "missing"
       THEN /\ cover_result' = Returned("KeyError", "mimetype file not found")
            /\ UNCHANGED <<cover_dst, cover_runs>>
       ELSE IF cover_input.mimetype = "wrong"
       THEN /\ cover_result' = Returned("RuntimeError", "Found mimetype file")
            /\ UNCHANGED <<cover_dst, cover_runs>>
       ELSE /\ cover_dst' = Some(with_cover(cover_input))
            /\ cover_result' = Returned("True", "")
            /\ cover_runs' = cover_runs + 1
    /\ UNCHANGED <<merge_vars, cover_src>>

NextCover ==
    \E src_kind \in {"missing", "regular", "directory"},
       img_kind \in {"missing", "regular", "directory"},
       dst_exists \in BOOLEAN,
       continue_str \in {"Y", "YES", "N"} :
        set_cover(src_kind, img_kind, dst_exists, continue_str)

SpecCover == InitCover /\ [][NextCover]_vars

\* ------------------------------------------------------------------ claims
Succeeded == pc = "done" /\ result.returned = "True"

out_manifest == output_content_opf_tree[1].manifest
out_spine == output_content_opf_tree[1].spine

Entries ==
    UNION {{<<f, k>> : k \in 1..Len(files_to_merge[f].manifest)} :
           f \in 1..Len(files_to_merge)}

EntryAt(fk) == files_to_merge[fk[1]].manifest[fk[2]]

IsNav(e) == e.media_type = NCX

Pairwise(s) == \A j, k \in 1..Len(s) : j # k => s[j] # s[k]

\* The rename mapping the claims speak of, for the f-th archive (f from 1):
\* every non-navigation href, mapped to its name prefixed with f - 1
OwnKeys(f) ==
    {files_to_merge[f].manifest[k].href :
        k \in {j \in 1..Len(files_to_merge[f].manifest) :
                 ~IsNav(files_to_merge[f].manifest[j])}}

Mapped(f, h) == parent(h) \o <<<<Digit[f], "_">> \o name(h)>>

Dir(f) == parent(files_to_merge[f].content_opf_path)

Written(path) == \E w \in 1..Len(zip_out) : zip_out[w].path = path

\* C1 (as claimed): after a successful merge of archives whose own manifests
\* have pairwise distinct ids, the ids of the output manifest are pairwise
\* distinct.
C1_OutputIdsDistinct ==
    (Succeeded
     /\ \A f \in 1..Len(files_to_merge) :
            Pairwise([k \in 1..Len(files_to_merge[f].manifest) |->
                        files_to_merge[f].manifest[k].id]))
    => Pairwise([k \in 1..Len(out_manifest) |-> out_manifest[k].id])

SpineResolves(a) ==
    \A k \in 1..Len(a.spine) :
        \E j \in 1..Len(a.manifest) : a.manifest[j].id = a.spine[k]

SpineResolvesToContent(a) ==
    \A k \in 1..Len(a.spine) :
        \E j \in 1..Len(a.manifest) :
            a.manifest[j].id = a.spine[k] /\ ~IsNav(a.manifest[j])

OutputSpineResolves ==
    \A k \in 1..Len(out_spine) :
        \E j \in 1..Len(out_manifest) : out_manifest[j].id = out_spine[k]

\* C2 (as claimed): after a successful merge of archives whose spine idrefs
\* each resolve within the archive's own manifest (to a navigation entry too),
\* every idref of the output spine is the id of an output manifest entry.
C2_SpineResolvesAnyTarget ==
    (Succeeded /\ \A f \in 1..Len(files_to_merge) : SpineResolves(files_to_merge[f]))
    => OutputSpineResolves

\* C2 (amended): after a successful merge of archives whose spine idrefs each
\* resolve to a non-navigation entry of the archive's own manifest, every
\* idref of the output spine is the id of an output manifest entry.
C2_SpineResolvesToContent ==
    (Succeeded
     /\ \A f \in 1..Len(files_to_merge) : SpineResolvesToContent(files_to_merge[f]))
    => OutputSpineResolves

C2_Witness ==
    /\ Succeeded
    /\ Len(files_to_merge) = 2
    /\ \A f \in 1..2 : /\ SpineResolvesToContent(files_to_merge[f])
                       /\ files_to_merge[f].spine # <<>>
    /\ Len(out_spine) = 2
    /\ \E j \in 1..Len(out_manifest) : IsNav(out_manifest[j])

\* The f-th archive's buffered bodies have been rewritten and written
Rewritten(f) ==
    \/ f - 1 < input_file_index
    \/ f - 1 = input_file_index /\ pc = "spine"

ExpectedRef(f, v) == IF v \in OwnKeys(f) THEN Mapped(f, v) ELSE v

ExpectedBody(f, body) ==
    [kind |-> "xhtml",
     elems |-> [k \in 1..Len(body.elems) |->
                  [href |-> ExpectedRef(f, body.elems[k].href),
                   src |-> ExpectedRef(f, body.elems[k].src)]]]

\* C3: once archive i's bodies are written, every XHTML entry of archive i
\* stands in the output under its prefixed path with every href and src value
\* that is a key of archive i's rename mapping replaced by archive i's mapped
\* value and every other value kept, and every mapped path is an entry of the
\* output (so "style.css" reads "0_style.css" in archive 0's chapter and
\* "1_style.css" in archive 1's, and both stylesheets are there).
C3_ReferencesRewrittenPerArchive ==
    \A f \in 1..Len(files_to_merge) :
        Rewritten(f) =>
            /\ \A k \in 1..Len(files_to_merge[f].manifest) :
                 LET e == files_to_merge[f].manifest[k]
                 IN  e.media_type = XHTML =>
                        \E w \in 1..Len(zip_out) :
                            /\ zip_out[w].path = Dir(f) \o Mapped(f, e.href)
                            /\ zip_out[w].data =
                                 ExpectedBody(f, files_to_merge[f].files[Dir(f) \o e.href])
            /\ \A h \in OwnKeys(f) : Written(Dir(f) \o Mapped(f, h))

C3_Witness ==
    /\ Succeeded
    /\ Len(files_to_merge) = 2
    /\ \A f \in 1..2 :
         /\ Dir(f) = OEBPS
         /\ \E k \in 1..Len(files_to_merge[f].manifest) :
                /\ files_to_merge[f].manifest[k].media_type = XHTML
                /\ LET body == files_to_merge[f].files[
                                   OEBPS \o files_to_merge[f].manifest[k].href]
                   IN  body.elems # <<>> /\ body.elems[1].href = StyleCss
         /\ StyleCss \in OwnKeys(f)
    /\ \E w \in 1..Len(zip_out) :
         /\ zip_out[w].path = <<<<"OEBPS">>, <<"0", "_", "ch1.html">>>>
         /\ zip_out[w].data.kind = "xhtml"
         /\ zip_out[w].data.elems # <<>>
         /\ zip_out[w].data.elems[1].href = <<<<"0", "_", "style.css">>>>
    /\ \E w \in 1..Len(zip_out) :
         /\ zip_out[w].path = <<<<"OEBPS">>, <<"1", "_", "ch1.html">>>>
         /\ zip_out[w].data.kind = "xhtml"
         /\ zip_out[w].data.elems # <<>>
         /\ zip_out[w].data.elems[1].href = <<<<"1", "_", "style.css">>>>
    /\ Written(<<<<"OEBPS">>, <<"0", "_", "style.css">>>>)
    /\ Written(<<<<"OEBPS">>, <<"1", "_", "style.css">>>>)

\* The navigation points the input archives hold, in input order, each with
\* the archive it comes from
NavPointsOf(f) ==
    LET a == files_to_merge[f]
        navs == {k \in 1..Len(a.manifest) : IsNav(a.manifest[k])}
    IN  IF navs = {} THEN <<>>
        ELSE LET k == CHOOSE j \in navs : TRUE
                 navMap == a.files[Dir(f) \o a.manifest[k].href].navMap
             IN  [j \in 1..Len(navMap) |->
                    [archive |-> f, playOrder |-> navMap[j].playOrder,
                     src |-> navMap[j].src]]

RECURSIVE NavPointsUpTo(_)
NavPointsUpTo(n) ==
    IF n = 0 THEN <<>> ELSE NavPointsUpTo(n - 1) \o NavPointsOf(n)

out_navMap == output_toc_root[1].navMap

\* C4 (as claimed): after a successful merge of archives whose own playOrder
\* values are strictly increasing (contiguous or not), the merged navMap holds
\* the archives' points in input order and its playOrder values are strictly
\* increasing, hence without duplicates.
C4_PlayOrderStrictlyIncreasing ==
    (Succeeded
     /\ output_toc_root # None
     /\ \A f \in 1..Len(files_to_merge) :
            Increasing([j \in 1..Len(NavPointsOf(f)) |-> NavPointsOf(f)[j].playOrder]))
    => /\ Len(out_navMap) = Len(NavPointsUpTo(Len(files_to_merge)))
       /\ Increasing([k \in 1..Len(out_navMap) |-> out_navMap[k].playOrder])

NavEntries == {fk \in Entries : IsNav(EntryAt(fk))}

\* C5: after a successful merge the output manifest has as many entries as
\* the input manifests together less the navigation entries after the first;
\* it holds at most one navigation entry and every non-navigation entry, and
\* a merge of two archives drops at most one entry.
C5_ManifestCount ==
    Succeeded =>
        /\ Len(out_manifest) =
              Cardinality(Entries)
              - (IF NavEntries = {} THEN 0 ELSE Cardinality(NavEntries) - 1)
        /\ Cardinality({k \in 1..Len(out_manifest) : IsNav(out_manifest[k])}) <= 1
        /\ Cardinality({k \in 1..Len(out_manifest) : ~IsNav(out_manifest[k])})
              = Cardinality(Entries \ NavEntries)
        /\ Len(files_to_merge) = 2 => Cardinality(Entries) - Len(out_manifest) <= 1

C5_Witness ==
    /\ Succeeded
    /\ Len(files_to_merge) = 2
    /\ Cardinality(NavEntries) = 2
    /\ Len(out_manifest) = Cardinality(Entries) - 1

\* C6: nothing is written before epub_merge opens the output, and from then
\* on the first entry of the output is "mimetype" with the payload
\* application/epub+zip: the container descriptor, the content entries, the
\* package document and the navigation document all come after it.
C6_MimetypeFirst ==
    /\ pc \in {"start", "idle"} => zip_out = <<>>
    /\ pc \notin {"start", "idle"} =>
          /\ Len(zip_out) >= 1
          /\ zip_out[1].path = <<<<"mimetype">>>>
          /\ zip_out[1].data = Bytes(<<"application/epub+zip">>)
          /\ \A k \in 2..Len(zip_out) : zip_out[k].path # <<<<"mimetype">>>>

C6_Witness ==
    /\ Succeeded
    /\ Len(zip_out) >= 5
    /\ zip_out[2].path = CONTAINER_XML_PATH
    /\ zip_out[Len(zip_out) - 1].data.kind = "opf"
    /\ zip_out[Len(zip_out)].data.kind = "ncx"

IsSound(a) ==
    /\ a.has_manifest
    /\ a.has_spine
    /\ \A k \in 1..Len(a.manifest) : a.manifest[k].id # <<>>
    /\ \A k \in 1..Len(a.spine) : a.spine[k] # <<>>

\* C7 (as claimed): for every list of archives without a fatal defect,
\* epub_merge ends with True and the package document written, and the output
\* holds a navigation document exactly if some input archive declares one.
C7_NavigationOptional ==
    (pc = "done" /\ \A f \in 1..Len(files_to_merge) : IsSound(files_to_merge[f]))
    => /\ result.returned = "True"
       /\ \E w \in 1..Len(zip_out) : zip_out[w].data.kind = "opf"
       /\ (\E w \in 1..Len(zip_out) : zip_out[w].data.kind = "ncx")
             <=> NavEntries # {}

\* C8 (as claimed): after a successful merge, every navigation target that
\* archive i contributed and that is a key of archive i's rename mapping
\* reads archive i's mapped value: no later archive's mapping has rewritten it
\* again.
C8_NavTargetsRewrittenOnce ==
    (Succeeded /\ output_toc_root # None)
    => LET points == NavPointsUpTo(Len(files_to_merge))
       IN  /\ Len(out_navMap) = Len(points)
           /\ \A k \in 1..Len(points) :
                points[k].src \in OwnKeys(points[k].archive)
                => out_navMap[k].src = Mapped(points[k].archive, points[k].src)

\* C9 (as claimed): when an input archive, at whatever position, lacks its
\* manifest or its spine or has an item without id or an itemref without
\* idref, epub_merge returns failure with the cause printed and writes
\* neither the package document nor the navigation document. (Stated of the
\* runs that adopted a navigation document, which the failure of C7 does not
\* end.)
C9_DefectReported ==
    (pc = "done"
     /\ output_toc_root # None
     /\ \E f \in 1..Len(files_to_merge) : ~IsSound(files_to_merge[f]))
    => /\ result.returned = "False"
       /\ result.printed # ""
       /\ \A w \in 1..Len(zip_out) : zip_out[w].data.kind \notin {"opf", "ncx"}

IsCoverItem(e) ==
    e.id = <<"cover">> /\ e.media_type = JPEG /\ name(e.href) = name(COVER_NAME)

\* C10 (as claimed): after set_cover has been applied to an archive and then
\* to its result, the package document holds at most one cover item and at
\* most one cover meta, wherever the package document is stored.
C10_CoverInsertedOnce ==
    cover_runs >= 2 =>
        /\ Cardinality({k \in 1..Len(cover_dst[1].manifest) :
                          IsCoverItem(cover_dst[1].manifest[k])}) <= 1
        /\ Cardinality({k \in 1..Len(cover_dst[1].metadata) :
                          cover_dst[1].metadata[k] = CoverMeta}) <= 1

\* C11 (as claimed): the validation of set_cover's input files raises, with
\* the message "<path> not found or not a regular file.", exactly when the
\* source archive or the cover image is not a regular file.
C11_ValidationRegularFile ==
    cover_args # None =>
        ((cover_args[1].src_kind # "regular" \/ cover_args[1].img_kind # "regular")
         <=> cover_result =
               Returned("RuntimeError", "not found or not a regular file."))

\* C11, the part that holds: a call that ends in an error or is declined
\* leaves the destination as it was.
C11_NoWriteUnlessDone ==
    [][cover_result'.returned # "True" => cover_dst' = cover_dst]_vars

\* The f-th archive's manifest loop is running and has visited child k
Visited(f, k) ==
    /\ pc = "manifest"
    /\ f - 1 = input_file_index
    /\ k < manifest_i

OutPath(f, e) == Dir(f) \o Mapped(f, e.href)

Original(f, e) == files_to_merge[f].files[Dir(f) \o e.href]

WrittenAs(path, data) ==
    \E w \in 1..Len(zip_out) : zip_out[w].path = path /\ zip_out[w].data = data

\* What C12 says of one non-navigation entry e of archive f, `held` being the
\* media types that are buffered
BufferedOrImmediate(f, k, held) ==
    LET e == files_to_merge[f].manifest[k]
    IN  ~IsNav(e) =>
          /\ (Visited(f, k) /\ e.media_type \in held)
                => /\ ~Written(OutPath(f, e))
                   /\ OutPath(f, e) \in Keys(path_and_contents_dict)
          /\ (Visited(f, k) /\ e.media_type \notin held)
                => WrittenAs(OutPath(f, e), Original(f, e))
          /\ Rewritten(f)
                => WrittenAs(OutPath(f, e),
                             IF e.media_type = XHTML
                             THEN ExpectedBody(f, Original(f, e))
                             ELSE Original(f, e))

\* C12 (as claimed): XHTML and CSS entries alike are held back during the
\* manifest loop and written after it, rewritten with the archive's complete
\* mapping; entries of any other type are written at once, unmodified.
C12_TextTypesBuffered ==
    \A f \in 1..Len(files_to_merge) :
        \A k \in 1..Len(files_to_merge[f].manifest) :
            BufferedOrImmediate(f, k, {XHTML, CSS})

\* C12 (amended): XHTML entries are held back during the manifest loop and
\* written after it, rewritten with the archive's complete mapping; entries of
\* any other type, CSS included, are written at once, unmodified.
C12_XhtmlBuffered ==
    \A f \in 1..Len(files_to_merge) :
        \A k \in 1..Len(files_to_merge[f].manifest) :
            BufferedOrImmediate(f, k, {XHTML})

\* A chapter refers to a stylesheet listed after it: the stylesheet was
\* written first, as it is, and the chapter after it with the reference
\* rewritten
C12_Witness ==
    /\ pc = "spine"
    /\ \E k, j \in 1..Len(zip_file.manifest) :
         LET f == input_file_index + 1
             e == zip_file.manifest[k]
             c == zip_file.manifest[j]
         IN  /\ k < j
             /\ e.media_type = XHTML
             /\ c.media_type = CSS
             /\ Original(f, e).elems # <<>>
             /\ Original(f, e).elems[1].href = c.href
             /\ \E v, w \in 1..Len(zip_out) :
                  /\ v < w
                  /\ zip_out[v].path = OutPath(f, c)
                  /\ zip_out[v].data = Original(f, c)
                  /\ zip_out[w].path = OutPath(f, e)
                  /\ zip_out[w].data.elems[1].href = Mapped(f, c.href)

\* C13 (as claimed): after a successful merge every href of the output
\* manifest, resolved against the directory of the output package document,
\* names an entry written to the output, and no path is written twice; also
\* when the archives keep their package documents in different directories.
C13_ManifestHrefsResolve ==
    Succeeded =>
        /\ \A k \in 1..Len(out_manifest) :
             Written(parent(output_content_opf_location[1]) \o out_manifest[k].href)
        /\ Pairwise([w \in 1..Len(zip_out) |-> zip_out[w].path])

====
